---- MODULE Spec2Model ----
(***************************************************************************)
(* Model of the download loop of dltool_optimized.py: for each wanted file *)
(* the script inspects the local target, probes the remote size with HEAD, *)
(* decides whether to skip, resume or (re)download, and streams the GET    *)
(* body to disk chunk by chunk.                                            *)
(*                                                                         *)
(* A file's content is a sequence of bytes.  Optional values (Python None) *)
(* are sequences of length 0 or 1: <<>> is None, <<n>> is the value n.     *)
(***************************************************************************)
EXTENDS Integers, Sequences, FiniteSets, TLC

\* ---- bounds of the model ------------------------------------------------
NumFiles == 2          \* len(wantedfiles)
MaxRemote == 2         \* largest remote file, in bytes
MaxLocal == 2          \* largest local file present before the first run
CHUNKSIZE == 1         \* bytes per chunk of iter_content (scaled down)
MaxRuns == 2           \* invocations of the script over the same directory
NumNames == 3          \* distinct game names that DAT and server can hold
MaxGames == 3          \* <game> elements of the DAT file

Files == 1..NumFiles
Names == 1..NumNames
Byte == {1, 2}

None == <<>>
Some(n) == <<n>>
IsNone(o) == o = <<>>
Val(o) == o[1]

Min(a, b) == IF a < b THEN a ELSE b

\* All byte sequences of length at most n.
BSeq(n) == UNION {[1..k -> Byte] : k \in 0..n}

\* The first n bytes / all but the first n bytes of s.
Take(s, n) == SubSeq(s, 1, Min(n, Len(s)))
Drop(s, n) == SubSeq(s, Min(n, Len(s)) + 1, Len(s))

\* Content of a remote file of n bytes: byte i is 1 for odd i and 2 for even i.
RemoteContent(n) == [i \in 1..n |-> IF i % 2 = 1 THEN 1 ELSE 2]

\* A path that is not a regular file, and a regular file holding d.
Absent == [exists |-> FALSE, data |-> <<>>]
Present(d) == [exists |-> TRUE, data |-> d]

\* os.path.isfile / os.path.getsize of a directory entry.
isfile(entry) == entry.exists
getsize(entry) == Len(entry.data)

VARIABLES
    dat,                \* the name attributes of the <game> elements of the DAT
    parsed,             \* number of <game> elements read so far
    availableroms,      \* keys of availableroms: the names found on the server
    wantedroms,
    wantedfiles,        \* wantedfiles, each entry by its 'name'
    missingroms,
    compared,           \* number of wantedroms compared so far
    skipexisting,       \* args.skipexisting
    list,               \* args.list
    remote,             \* remote[f]: content of the file behind wantedfiles[f]['url']
    server,             \* how the server answers, fixed once it has been observed
    disk,               \* disk[f]: the entry at os.path.join(output_dir, file)
    pc,                 \* position of the script
    run,                \* number of the current invocation
    dlcounter,          \* index of the file of the current loop iteration
    proceed_with_download,
    resume_download,
    file_open_mode,
    local_file_size,
    remote_file_size,
    effective_remotesize_for_pbar,
    range_header,       \* current_headers_for_get['Range'], the offset if set
    status,             \* status code of resp_get, 0 before any response
    body,               \* bytes of resp_get not yet yielded by iter_content
    pbar,               \* TRUE while a progress bar is active
    before,             \* the entry of the current file when its iteration began
    opened,             \* mode the destination was opened with in this iteration
    reason,             \* detail of the last outcome line of this iteration
    faulted,            \* a network, filesystem or rendering fault hit this iteration
    content_range,      \* total after the '/' of resp_get's content-range, if any
    content_length,     \* content-length of resp_get, if any
    current_progress_bytes,
    reports,            \* values handed to pbar.update, and max_value at pbar.finish()
    sigint,             \* SIGINT has been delivered to this invocation
    exit_code,          \* exit status of the invocation once it has ended
    outcome,            \* outcome[f]: outcome lines logged for f in this run
    heads,              \* heads[f]: HEAD requests issued for f in this run
    gets,               \* gets[f]: GET requests issued for f in this run
    kept                \* kept[f]: size of f when the connection broke while it was
                        \* streamed, until something writes to f again

catalog == <<dat, parsed, availableroms, wantedroms, wantedfiles, missingroms, compared>>
args == <<skipexisting, list>>
env == <<remote, server>>
locals == <<proceed_with_download, resume_download, file_open_mode,
            local_file_size, remote_file_size, effective_remotesize_for_pbar,
            range_header, status, body, pbar, before, opened, reason, faulted,
            content_range, content_length, current_progress_bytes, reports>>
response == <<content_range, content_length>>
progress == <<current_progress_bytes, reports>>
ending == <<sigint, exit_code>>
history == <<outcome, heads, gets, kept>>
vars == <<catalog, args, env, disk, pc, run, dlcounter, locals, ending, history>>

\* ---- outcomes -----------------------------------------------------------
\* logger(...) of a line that ends the attempt on file f: 'Skipping ...' or
\* 'Already Downloaded ...' (Skipped), 'Downloaded: ...' (Downloaded),
\* '... Error downloading/writing ...' (Failed).
Log(f, result) == [outcome EXCEPT ![f] = Append(@, result)]

\* The variables of the process before the loop has set them, and once the
\* process is gone.
Fresh ==
    /\ dlcounter' = 0
    /\ proceed_with_download' = TRUE
    /\ resume_download' = FALSE
    /\ file_open_mode' = "wb"
    /\ local_file_size' = 0
    /\ remote_file_size' = None
    /\ effective_remotesize_for_pbar' = None
    /\ range_header' = None
    /\ status' = 0
    /\ body' = <<>>
    /\ pbar' = FALSE
    /\ before' = Absent
    /\ opened' = "no"
    /\ reason' = "none"
    /\ faulted' = FALSE
    /\ content_range' = None
    /\ content_length' = None
    /\ current_progress_bytes' = 0
    /\ reports' = <<>>

\* The download loop is modelled from the point where the DAT has been read
\* and compared and every one of its NumFiles names was found on the server.
Init ==
    /\ dat = [i \in 1..NumFiles |-> i]
    /\ parsed = NumFiles
    /\ availableroms = 1..NumFiles
    /\ wantedroms = [i \in 1..NumFiles |-> i]
    /\ wantedfiles = [i \in 1..NumFiles |-> i]
    /\ missingroms = <<>>
    /\ compared = NumFiles
    /\ skipexisting \in BOOLEAN
    /\ list \in BOOLEAN
    /\ remote \in [Files -> {RemoteContent(n) : n \in 0..MaxRemote}]
    /\ server = [length |-> "unset", ranges |-> "unset"]
    /\ disk \in [Files -> {Absent} \cup {Present(d) : d \in BSeq(MaxLocal)}]
    /\ pc = "main"
    /\ run = 1
    /\ dlcounter = 0
    /\ proceed_with_download = TRUE
    /\ resume_download = FALSE
    /\ file_open_mode = "wb"
    /\ local_file_size = 0
    /\ remote_file_size = None
    /\ effective_remotesize_for_pbar = None
    /\ range_header = None
    /\ status = 0
    /\ body = <<>>
    /\ pbar = FALSE
    /\ before = Absent
    /\ opened = "no"
    /\ reason = "none"
    /\ faulted = FALSE
    /\ content_range = None
    /\ content_length = None
    /\ current_progress_bytes = 0
    /\ reports = <<>>
    /\ sigint = FALSE
    /\ exit_code = None
    /\ outcome = [f \in Files |-> <<>>]
    /\ heads = [f \in Files |-> 0]
    /\ gets = [f \in Files |-> 0]
    /\ kept = [f \in Files |-> None]

\* ---- the script -----------------------------------------------------------
f_cur == dlcounter

\* Lines 454-457: with -l nothing is downloaded.
ListOnlyStillDownloads ==
    /\ pc = "main"
    /\ list
    /\ pc' = "loop"
    /\ UNCHANGED <<catalog, args, env, disk, run, dlcounter, locals, ending, history>>

ListOnly ==
    /\ pc = "main"
    /\ list
    /\ pc' = "report"
    /\ UNCHANGED <<catalog, args, env, disk, run, dlcounter, locals, ending, history>>

StartDownload ==
    /\ pc = "main"
    /\ ~list
    /\ pc' = "loop"
    /\ UNCHANGED <<catalog, args, env, disk, run, dlcounter, locals, ending, history>>

\* Lines 478-482: an existing file is skipped unprobed under --skip-existing.
SkipCheckFlagOnly(here, lsize, flag) == flag

SkipCheckSameSizeOnly(here, lsize, flag) == here /\ flag /\ lsize = 0

SkipCheck(here, lsize, flag) == here /\ flag

\* Lines 462-486: next file of wantedfiles, default decision state, first look
\* at the local file and the --skip-existing check.
CheckLocal ==
    /\ pc = "loop"
    /\ dlcounter < NumFiles
    /\ LET f == dlcounter + 1
           here == isfile(disk[f])
           skip == SkipCheck(here, getsize(disk[f]), skipexisting)
       IN  /\ dlcounter' = f
           /\ before' = disk[f]
           /\ proceed_with_download' = ~skip
           /\ resume_download' = FALSE
           /\ file_open_mode' = "wb"
           /\ local_file_size' = IF here THEN getsize(disk[f]) ELSE 0
           /\ remote_file_size' = None
           /\ outcome' = IF skip THEN Log(f, "Skipped") ELSE outcome
           /\ reason' = IF skip THEN "skip-existing" ELSE "none"
           /\ pc' = IF skip THEN "loop" ELSE "head"
    /\ effective_remotesize_for_pbar' = None
    /\ range_header' = None
    /\ status' = 0
    /\ body' = <<>>
    /\ pbar' = FALSE
    /\ opened' = "no"
    /\ faulted' = FALSE
    /\ content_range' = None
    /\ content_length' = None
    /\ current_progress_bytes' = 0
    /\ reports' = <<>>
    /\ UNCHANGED <<catalog, args, env, disk, run, ending, heads, gets, kept>>

\* Lines 499-517: the decision taken after a HEAD response, from the second
\* look at the local file, the size recorded at the first look and the remote
\* size.  The result is (proceed, resume, mode, local size, skip line).
DecideOffByOne(here, lsize, rsize) ==
    IF ~here THEN [proceed |-> TRUE, resume |-> FALSE, mode |-> "wb", lsize |-> lsize, skip |-> "none"]
    ELSE IF IsNone(rsize)
    THEN [proceed |-> FALSE, resume |-> FALSE, mode |-> "wb", lsize |-> lsize, skip |-> "size-unknown"]
    ELSE IF lsize <= Val(rsize)
    THEN [proceed |-> TRUE, resume |-> TRUE, mode |-> "ab", lsize |-> lsize, skip |-> "none"]
    ELSE [proceed |-> TRUE, resume |-> FALSE, mode |-> "wb", lsize |-> 0, skip |-> "none"]

DecideFetchUnknown(here, lsize, rsize) ==
    IF ~here \/ IsNone(rsize)
    THEN [proceed |-> TRUE, resume |-> FALSE, mode |-> "wb", lsize |-> lsize, skip |-> "none"]
    ELSE IF lsize < Val(rsize)
    THEN [proceed |-> TRUE, resume |-> TRUE, mode |-> "ab", lsize |-> lsize, skip |-> "none"]
    ELSE IF lsize = Val(rsize)
    THEN [proceed |-> FALSE, resume |-> FALSE, mode |-> "wb", lsize |-> lsize, skip |-> "same-size"]
    ELSE [proceed |-> TRUE, resume |-> FALSE, mode |-> "wb", lsize |-> 0, skip |-> "none"]

DecideRefetchEqual(here, lsize, rsize) ==
    IF ~here THEN [proceed |-> TRUE, resume |-> FALSE, mode |-> "wb", lsize |-> lsize, skip |-> "none"]
    ELSE IF IsNone(rsize)
    THEN [proceed |-> FALSE, resume |-> FALSE, mode |-> "wb", lsize |-> lsize, skip |-> "size-unknown"]
    ELSE IF lsize < Val(rsize)
    THEN [proceed |-> TRUE, resume |-> TRUE, mode |-> "ab", lsize |-> lsize, skip |-> "none"]
    ELSE [proceed |-> TRUE, resume |-> FALSE, mode |-> "wb", lsize |-> 0, skip |-> "none"]

Decide(here, lsize, rsize) ==
    IF ~here THEN [proceed |-> TRUE, resume |-> FALSE, mode |-> "wb", lsize |-> lsize, skip |-> "none"]
    ELSE IF IsNone(rsize)
    THEN [proceed |-> FALSE, resume |-> FALSE, mode |-> "wb", lsize |-> lsize, skip |-> "size-unknown"]
    ELSE IF lsize < Val(rsize)
    THEN [proceed |-> TRUE, resume |-> TRUE, mode |-> "ab", lsize |-> lsize, skip |-> "none"]
    ELSE IF lsize = Val(rsize)
    THEN [proceed |-> FALSE, resume |-> FALSE, mode |-> "wb", lsize |-> lsize, skip |-> "same-size"]
    ELSE [proceed |-> TRUE, resume |-> FALSE, mode |-> "wb", lsize |-> 0, skip |-> "none"]

\* How the server fills the content-length header of a HEAD response: chosen
\* when the server is first asked and the same from then on.
ObserveLength(a) ==
    /\ server.length \in {"unset", a}
    /\ server' = [server EXCEPT !.length = a]

\* Lines 487-524: the HEAD probe and the decision.
\*   requests.head raises, or raise_for_status raises (RequestException);
HeadErrorFails ==
    /\ pc = "head"
    /\ heads' = [heads EXCEPT ![f_cur] = @ + 1]
    /\ proceed_with_download' = FALSE
    /\ outcome' = Log(f_cur, "Failed")
    /\ reason' = "head-error"
    /\ pc' = "loop"
    /\ faulted' = TRUE
    /\ UNCHANGED <<catalog, args, env, disk, run, dlcounter, resume_download, file_open_mode,
                   local_file_size, remote_file_size, effective_remotesize_for_pbar,
                   range_header, status, body, pbar, before, opened, response,
                   progress, ending, gets, kept>>

HeadError ==
    /\ pc = "head"
    /\ LET f == f_cur
           here == isfile(disk[f])
       IN  /\ heads' = [heads EXCEPT ![f] = @ + 1]
           /\ proceed_with_download' = IF here THEN FALSE ELSE proceed_with_download
           /\ outcome' = IF here THEN Log(f, "Skipped") ELSE outcome
           /\ reason' = IF here THEN "head-error" ELSE reason
           /\ pc' = IF here THEN "loop" ELSE "get"
    /\ faulted' = TRUE
    /\ UNCHANGED <<catalog, args, env, disk, run, dlcounter, resume_download, file_open_mode,
                   local_file_size, remote_file_size, effective_remotesize_for_pbar,
                   range_header, status, body, pbar, before, opened, response,
                   progress, ending, gets, kept>>

\*   the response arrives, without a content-length or with one that int() parses;
HeadResponse ==
    /\ pc = "head"
    /\ \E a \in {"ok", "none"} :
        LET f == f_cur
            rsize == IF a = "ok" THEN Some(Len(remote[f])) ELSE None
            d == Decide(isfile(disk[f]), local_file_size, rsize)
        IN  /\ ObserveLength(a)
            /\ heads' = [heads EXCEPT ![f] = @ + 1]
            /\ remote_file_size' = rsize
            /\ proceed_with_download' = d.proceed
            /\ resume_download' = d.resume
            /\ file_open_mode' = d.mode
            /\ local_file_size' = d.lsize
            /\ outcome' = IF d.proceed THEN outcome ELSE Log(f, "Skipped")
            /\ reason' = d.skip
            /\ pc' = IF d.proceed THEN "get" ELSE "loop"
    /\ UNCHANGED <<catalog, args, remote, disk, run, dlcounter, effective_remotesize_for_pbar,
                   range_header, status, body, pbar, before, opened, faulted,
                   response, progress, ending, gets, kept>>

\*   the response carries a content-length that int() rejects: the ValueError
\*   is not a RequestException, nothing catches it and the script dies.
HeadMalformed ==
    /\ pc = "head"
    /\ ObserveLength("bad")
    /\ heads' = [heads EXCEPT ![f_cur] = @ + 1]
    /\ pc' = "crashed"
    /\ exit_code' = Some(1)
    /\ Fresh
    /\ UNCHANGED <<catalog, args, remote, disk, run, sigint, outcome, gets, kept>>


\* Lines 531-536: headers of the GET request; Range is set only when resuming.
RangeForOmitsZero(resume, lsize) == IF resume /\ lsize > 0 THEN Some(lsize) ELSE None

RangeForNextByte(resume, lsize) == IF resume THEN Some(lsize + 1) ELSE None

RangeFor(resume, lsize) == IF resume THEN Some(lsize) ELSE None

\* Lines 548-560: total size for the progress bar, from the total after the
\* '/' of content-range (crange) and the content-length (clen) of the GET
\* response.
EffectiveSizeProbeOnly(eff, resume, crange, clen, rsize, lsize) ==
    IF ~IsNone(crange) /\ resume THEN crange ELSE eff

EffectiveSize(eff, resume, crange, clen, rsize, lsize) ==
    IF ~IsNone(crange) /\ resume THEN crange
    ELSE IF IsNone(eff) /\ ~IsNone(clen)
    THEN IF resume /\ clen # rsize THEN Some(Val(clen) + lsize) ELSE clen
    ELSE eff

\* Lines 572-576: the update that follows ProgressBar(...).start().
FirstUpdate(resume, lsize, max_value) ==
    IF resume THEN IF lsize > 0 /\ lsize < max_value THEN <<lsize>> ELSE <<>>
    ELSE <<0>>

\* Line 592: the value handed to pbar.update after a chunk.
ShownUnclamped(current, max_value) == current

Shown(current, max_value) == Min(current, max_value)

\* open(localpath, mode): 'wb' truncates or creates, 'ab' keeps or creates.
OpenKeeps(entry, mode) == IF entry.exists THEN entry ELSE Present(<<>>)

Open(entry, mode) ==
    IF mode = "ab" /\ entry.exists THEN entry ELSE Present(<<>>)

\* file_handle.write(chunk)
Write(entry, chunk) == Present(entry.data \o chunk)

\* Whether the server honours a Range header: chosen when first asked.
ObserveRanges(a) ==
    /\ server.ranges \in {"unset", a}
    /\ server' = [server EXCEPT !.ranges = a]

\* The body the server sends for f: the bytes from the requested offset on
\* when it honours the range (206), the whole file otherwise (200).
ResponseBody(f, hdr, partial) ==
    IF partial THEN Drop(remote[f], Val(hdr)) ELSE remote[f]

\* Lines 543-546, 601-602: requests.get raises (connection error, timeout) or
\* raise_for_status raises (HTTP error status); the attempt ends.
GetErrorRetries ==
    /\ pc = "get"
    /\ range_header' = RangeFor(resume_download, local_file_size)
    /\ effective_remotesize_for_pbar' = remote_file_size
    /\ gets' = [gets EXCEPT ![f_cur] = @ + 1]
    /\ faulted' = TRUE
    /\ UNCHANGED <<catalog, args, env, disk, pc, run, dlcounter, proceed_with_download,
                   resume_download, file_open_mode, local_file_size,
                   remote_file_size, status, body, pbar, before, opened, reason,
                   response, progress, ending, outcome, heads, kept>>

GetErrorAfterOpen ==
    /\ pc = "get"
    /\ range_header' = RangeFor(resume_download, local_file_size)
    /\ effective_remotesize_for_pbar' = remote_file_size
    /\ gets' = [gets EXCEPT ![f_cur] = @ + 1]
    /\ disk' = [disk EXCEPT ![f_cur] = Open(@, file_open_mode)]
    /\ outcome' = Log(f_cur, "Failed")
    /\ reason' = "network"
    /\ faulted' = TRUE
    /\ pc' = "loop"
    /\ UNCHANGED <<catalog, args, env, run, dlcounter, proceed_with_download,
                   resume_download, file_open_mode, local_file_size,
                   remote_file_size, status, body, pbar, before, opened, response,
                   progress, ending, heads, kept>>

GetError ==
    /\ pc = "get"
    /\ range_header' = RangeFor(resume_download, local_file_size)
    /\ effective_remotesize_for_pbar' = remote_file_size
    /\ gets' = [gets EXCEPT ![f_cur] = @ + 1]
    /\ outcome' = Log(f_cur, "Failed")
    /\ reason' = "network"
    /\ faulted' = TRUE
    /\ pc' = "loop"
    /\ UNCHANGED <<catalog, args, env, disk, run, dlcounter, proceed_with_download,
                   resume_download, file_open_mode, local_file_size,
                   remote_file_size, status, body, pbar, before, opened, response,
                   progress, ending, heads, kept>>

\* Lines 527-584: the GET is answered; the total size for the progress bar is
\* worked out, the progress bar is started (barOk: ProgressBar(...).start()
\* does not raise) and the destination is opened (openOk: open succeeds).
GetResponseWith(barOk, openOk) ==
    /\ pc = "get"
    /\ \E honour \in {"yes", "no"}, hasLen \in BOOLEAN :
        LET f == f_cur
            hdr == RangeFor(resume_download, local_file_size)
            partial == ~IsNone(hdr) /\ honour = "yes"
            rbody == ResponseBody(f, hdr, partial)
            crange == IF partial THEN Some(Len(remote[f])) ELSE None
            clen == IF hasLen THEN Some(Len(rbody)) ELSE None
            eff == EffectiveSize(remote_file_size, resume_download, crange, clen,
                                 remote_file_size, local_file_size)
            wantbar == ~IsNone(eff) /\ Val(eff) > 0
        IN  /\ IF IsNone(hdr) THEN honour = "no" /\ server' = server
                              ELSE ObserveRanges(honour)
            \* a range that starts at or after the end is answered 416: GetError
            /\ partial => Val(hdr) < Len(remote[f])
            /\ wantbar \/ barOk
            /\ range_header' = hdr
            /\ gets' = [gets EXCEPT ![f] = @ + 1]
            /\ status' = IF partial THEN 206 ELSE 200
            /\ content_range' = crange
            /\ content_length' = clen
            /\ effective_remotesize_for_pbar' = eff
            /\ pbar' = (wantbar /\ barOk)
            /\ reports' = IF wantbar /\ barOk
                           THEN FirstUpdate(resume_download, local_file_size, Val(eff))
                           ELSE <<>>
            /\ IF openOk
               THEN /\ disk' = [disk EXCEPT ![f] = Open(@, file_open_mode)]
                    /\ opened' = file_open_mode
                    /\ current_progress_bytes' =
                           IF resume_download THEN local_file_size ELSE 0
                    /\ body' = rbody
                    /\ outcome' = outcome
                    /\ reason' = reason
                    /\ pc' = "stream"
               ELSE /\ disk' = disk
                    /\ opened' = opened
                    /\ current_progress_bytes' = current_progress_bytes
                    /\ body' = <<>>
                    /\ outcome' = Log(f, "Failed")
                    /\ reason' = "file"
                    /\ pc' = "loop"
            /\ faulted' = (faulted \/ ~barOk \/ ~openOk)
            /\ kept' = [kept EXCEPT ![f] = IF disk'[f] = disk[f] THEN @ ELSE None]
    /\ UNCHANGED <<catalog, args, remote, run, dlcounter, proceed_with_download, resume_download,
                   file_open_mode, local_file_size, remote_file_size, before, ending,
                   heads>>

GetResponse == \E barOk \in BOOLEAN, openOk \in BOOLEAN : GetResponseWith(barOk, openOk)

\* Lines 586-594: one chunk of the body is written and the bar updated
\* (barOk: pbar.update does not raise).
StreamChunkUnreported(barOk) ==
    /\ pc = "stream"
    /\ body # <<>>
    /\ pbar \/ barOk
    /\ disk' = [disk EXCEPT ![f_cur] = Write(@, Take(body, CHUNKSIZE))]
    /\ body' = Drop(body, CHUNKSIZE)
    /\ pbar' = (pbar /\ barOk)
    /\ current_progress_bytes' =
           IF pbar THEN current_progress_bytes + Len(Take(body, CHUNKSIZE))
           ELSE current_progress_bytes
    /\ faulted' = (faulted \/ ~barOk)
    /\ kept' = [kept EXCEPT ![f_cur] = None]
    /\ UNCHANGED <<catalog, args, env, pc, run, dlcounter, proceed_with_download, resume_download,
                   file_open_mode, local_file_size, remote_file_size,
                   effective_remotesize_for_pbar, range_header, status, before,
                   opened, reason, response, reports, ending, outcome, heads, gets>>

StreamChunkWith(barOk) ==
    /\ pc = "stream"
    /\ body # <<>>
    /\ pbar \/ barOk
    /\ disk' = [disk EXCEPT ![f_cur] = Write(@, Take(body, CHUNKSIZE))]
    /\ body' = Drop(body, CHUNKSIZE)
    /\ pbar' = (pbar /\ barOk)
    /\ current_progress_bytes' =
           IF pbar THEN current_progress_bytes + Len(Take(body, CHUNKSIZE))
           ELSE current_progress_bytes
    /\ reports' = IF pbar /\ barOk
                   THEN Append(reports, Shown(current_progress_bytes',
                                              Val(effective_remotesize_for_pbar)))
                   ELSE reports
    /\ faulted' = (faulted \/ ~barOk)
    /\ kept' = [kept EXCEPT ![f_cur] = None]
    /\ UNCHANGED <<catalog, args, env, pc, run, dlcounter, proceed_with_download, resume_download,
                   file_open_mode, local_file_size, remote_file_size,
                   effective_remotesize_for_pbar, range_header, status, before,
                   opened, reason, response, ending, outcome, heads, gets>>

StreamChunk == \E barOk \in BOOLEAN : StreamChunkWith(barOk)

\* Lines 586-587, 601-604: the connection breaks while the body is streamed
\* (RequestException) or the write fails (OSError); the with-block closes the
\* file and the attempt ends.
StreamErrorRollsBack ==
    /\ pc = "stream"
    /\ body # <<>>
    /\ reason' \in {"network", "file"}
    /\ outcome' = Log(f_cur, "Failed")
    /\ kept' = [kept EXCEPT ![f_cur] = IF reason' = "network"
                                        THEN Some(getsize(disk[f_cur])) ELSE None]
    /\ disk' = [disk EXCEPT ![f_cur] = before]
    /\ body' = <<>>
    /\ faulted' = TRUE
    /\ pc' = "loop"
    /\ UNCHANGED <<catalog, args, env, run, dlcounter, proceed_with_download, resume_download,
                   file_open_mode, local_file_size, remote_file_size,
                   effective_remotesize_for_pbar, range_header, status, pbar, before,
                   opened, response, progress, ending, heads, gets>>

StreamError ==
    /\ pc = "stream"
    /\ body # <<>>
    /\ reason' \in {"network", "file"}
    /\ outcome' = Log(f_cur, "Failed")
    /\ kept' = [kept EXCEPT ![f_cur] = IF reason' = "network"
                                        THEN Some(getsize(disk[f_cur])) ELSE None]
    /\ body' = <<>>
    /\ faulted' = TRUE
    /\ pc' = "loop"
    /\ UNCHANGED <<catalog, args, env, disk, run, dlcounter, proceed_with_download, resume_download,
                   file_open_mode, local_file_size, remote_file_size,
                   effective_remotesize_for_pbar, range_header, status, pbar, before,
                   opened, response, progress, ending, heads, gets>>

\* Lines 596-599, 605-606: the body is exhausted; pbar.finish() (finOk: it does
\* not raise) and the 'Downloaded' line.
CompleteWith(finOk) ==
    /\ pc = "stream"
    /\ body = <<>>
    /\ pbar \/ finOk
    /\ outcome' = Log(f_cur, IF finOk THEN "Downloaded" ELSE "Failed")
    /\ reason' = IF finOk THEN "downloaded" ELSE "unexpected"
    /\ reports' = IF pbar /\ finOk
                   THEN Append(reports, Val(effective_remotesize_for_pbar))
                   ELSE reports
    /\ faulted' = (faulted \/ ~finOk)
    /\ pc' = "loop"
    /\ UNCHANGED <<catalog, args, env, disk, run, dlcounter, proceed_with_download, resume_download,
                   file_open_mode, local_file_size, remote_file_size,
                   effective_remotesize_for_pbar, range_header, status, body, pbar,
                   before, opened, response, current_progress_bytes, ending, heads,
                   gets, kept>>

Complete == \E finOk \in BOOLEAN : CompleteWith(finOk)

\* Lines 608-612: the list is exhausted.
Finish ==
    /\ pc = "loop"
    /\ dlcounter = NumFiles
    /\ pc' = "report"
    /\ UNCHANGED <<catalog, args, env, disk, run, dlcounter, locals, ending, history>>

\* Lines 615-622: the missing ROMs are listed and the script ends.
Report ==
    /\ pc = "report"
    /\ pc' = "end"
    /\ exit_code' = Some(0)
    /\ Fresh
    /\ UNCHANGED <<catalog, args, env, disk, run, sigint, history>>

\* Lines 92-98: SIGINT; exithandler calls sys.exit(1).
Running == pc \notin {"end", "crashed", "exited"}

exithandlerReturns ==
    /\ Running
    /\ ~sigint
    /\ sigint' = TRUE
    /\ UNCHANGED <<catalog, args, env, disk, pc, run, dlcounter, locals, exit_code, history>>

exithandler ==
    /\ Running
    /\ pc' = "exited"
    /\ sigint' = TRUE
    /\ exit_code' = Some(1)
    /\ Fresh
    /\ UNCHANGED <<catalog, args, env, disk, run, history>>

\* The script is started again with the same arguments over the same
\* directory and the same server.
Rerun ==
    /\ ~Running
    /\ run < MaxRuns
    /\ run' = run + 1
    /\ pc' = "main"
    /\ Fresh
    /\ outcome' = [f \in Files |-> <<>>]
    /\ heads' = [f \in Files |-> 0]
    /\ gets' = [f \in Files |-> 0]
    /\ sigint' = FALSE
    /\ exit_code' = None
    /\ UNCHANGED <<catalog, args, env, disk, kept>>

\* One invocation, with every fault the environment can produce.
Next ==
    \/ ListOnly
    \/ StartDownload
    \/ CheckLocal
    \/ HeadError
    \/ HeadResponse
    \/ HeadMalformed
    \/ GetError
    \/ GetResponse
    \/ StreamChunk
    \/ StreamError
    \/ Complete
    \/ Finish
    \/ Report
    \/ exithandler

Spec == Init /\ [][Next]_vars

\* Invocations in a row over a network and a server that do not change: no
\* request fails, no write fails, the progress bar works, nobody interrupts.
NextQuiet ==
    \/ ListOnly
    \/ StartDownload
    \/ CheckLocal
    \/ HeadResponse
    \/ HeadMalformed
    \/ GetResponseWith(TRUE, TRUE)
    \/ StreamChunkWith(TRUE)
    \/ CompleteWith(TRUE)
    \/ Finish
    \/ Report
    \/ Rerun

SpecTwice == Init /\ [][NextQuiet]_vars

\* Invocations in a row, each with every fault the environment can produce.
NextAgain == Next \/ Rerun

SpecAgain == Init /\ [][NextAgain]_vars


\* Lines 477-521: another process creates, deletes or rewrites the destination
\* of the current file between the first os.path.isfile (478) and the look
\* that follows the HEAD (500, 521).
Interfere ==
    /\ pc = "head"
    /\ \E e \in {Absent} \cup {Present(d) : d \in BSeq(MaxLocal)} :
          /\ e # disk[f_cur]
          /\ disk' = [disk EXCEPT ![f_cur] = e]
    /\ kept' = [kept EXCEPT ![f_cur] = None]
    /\ UNCHANGED <<catalog, args, env, pc, run, dlcounter, locals, ending, outcome, heads, gets>>

\* One invocation with every fault, next to a process that changes the
\* destination while the probe is in flight.
NextRace == Next \/ Interfere

SpecRace == Init /\ [][NextRace]_vars


\* ---- DAT parsing and comparison ----------------------------------------------
\* The elements of a sequence.
Range(s) == {s[i] : i \in 1..Len(s)}

\* Lines 186-187: a game name is added to wantedroms unless it is there.
AddWantedAlways(wanted, basename) == Append(wanted, basename)

AddWanted(wanted, basename) ==
    IF basename \notin Range(wanted) THEN Append(wanted, basename) ELSE wanted

\* Line 442: dat_game_name in availableroms.
IsAvailable(name) == name \in availableroms
IsMissing(name) == ~IsAvailable(name)

\* The script starts: a DAT file with some <game> elements, a server
\* collection with some names, and -l given.
InitMatch ==
    /\ dat \in UNION {[1..k -> Names] : k \in 0..MaxGames}
    /\ parsed = 0
    /\ availableroms \in SUBSET Names
    /\ wantedroms = <<>>
    /\ wantedfiles = <<>>
    /\ missingroms = <<>>
    /\ compared = 0
    /\ skipexisting = FALSE
    /\ list = TRUE
    /\ remote = [f \in Files |-> <<>>]
    /\ server = [length |-> "unset", ranges |-> "unset"]
    /\ disk = [f \in Files |-> Absent]
    /\ pc = "dat"
    /\ run = 1
    /\ dlcounter = 0
    /\ proceed_with_download = TRUE
    /\ resume_download = FALSE
    /\ file_open_mode = "wb"
    /\ local_file_size = 0
    /\ remote_file_size = None
    /\ effective_remotesize_for_pbar = None
    /\ range_header = None
    /\ status = 0
    /\ body = <<>>
    /\ pbar = FALSE
    /\ before = Absent
    /\ opened = "no"
    /\ reason = "none"
    /\ faulted = FALSE
    /\ content_range = None
    /\ content_length = None
    /\ current_progress_bytes = 0
    /\ reports = <<>>
    /\ sigint = FALSE
    /\ exit_code = None
    /\ outcome = [f \in Files |-> <<>>]
    /\ heads = [f \in Files |-> 0]
    /\ gets = [f \in Files |-> 0]
    /\ kept = [f \in Files |-> None]

\* Lines 161, 182-187: the next <game> element of the DAT.
ParseGame ==
    /\ pc = "dat"
    /\ parsed < Len(dat)
    /\ parsed' = parsed + 1
    /\ wantedroms' = AddWanted(wantedroms, dat[parsed + 1])
    /\ UNCHANGED <<dat, availableroms, wantedfiles, missingroms, compared, args, env,
                   disk, pc, run, dlcounter, locals, ending, history>>

\* Lines 189-191: a DAT without games ends the script with status 1.
NoGames ==
    /\ pc = "dat"
    /\ parsed = Len(dat)
    /\ wantedroms = <<>>
    /\ pc' = "nogames"
    /\ exit_code' = Some(1)
    /\ UNCHANGED <<catalog, args, env, disk, run, dlcounter, locals, sigint, history>>

\* Lines 193-436: the collection is listed on the server (availableroms).
DatDone ==
    /\ pc = "dat"
    /\ parsed = Len(dat)
    /\ wantedroms # <<>>
    /\ pc' = "match"
    /\ UNCHANGED <<catalog, args, env, disk, run, dlcounter, locals, ending, history>>

\* Lines 441-445: the next wanted name is found on the server or is missing.
Compare ==
    /\ pc = "match"
    /\ compared < Len(wantedroms)
    /\ LET dat_game_name == wantedroms[compared + 1]
       IN  IF IsAvailable(dat_game_name)
           THEN /\ wantedfiles' = Append(wantedfiles, dat_game_name)
                /\ missingroms' = missingroms
           ELSE /\ missingroms' = Append(missingroms, dat_game_name)
                /\ wantedfiles' = wantedfiles
    /\ compared' = compared + 1
    /\ UNCHANGED <<dat, parsed, availableroms, wantedroms, args, env, disk, pc, run,
                   dlcounter, locals, ending, history>>

\* Lines 447-450: the three counts are logged.
CompareDone ==
    /\ pc = "match"
    /\ compared = Len(wantedroms)
    /\ pc' = "main"
    /\ UNCHANGED <<catalog, args, env, disk, run, dlcounter, locals, ending, history>>

\* A listing run from the DAT to the missing-ROMs report.
NextMatch ==
    \/ ParseGame
    \/ NoGames
    \/ DatDone
    \/ Compare
    \/ CompareDone
    \/ ListOnly
    \/ Report

SpecMatch == InitMatch /\ [][NextMatch]_vars


\* ---- properties -----------------------------------------------------------
IsPrefix(a, b) == Len(a) <= Len(b) /\ a = SubSeq(b, 1, Len(a))

\* The loop is at or past the end of the check phase of file dlcounter: the
\* plan of this iteration is in the decision variables.
Planned == dlcounter >= 1 /\ pc \in {"loop", "get", "stream"}

\* The loop is somewhere in the iteration of file dlcounter, or just past it.
InIteration == dlcounter >= 1 /\ pc \in {"loop", "head", "get", "stream"}

\* The decision table of the transfer planner, evaluated in order.
TablePlan(local, rsize, skip) ==
    IF skip /\ local.exists THEN [kind |-> "Skip", offset |-> 0]
    ELSE IF IsNone(rsize) /\ local.exists THEN [kind |-> "Skip", offset |-> 0]
    ELSE IF IsNone(rsize) THEN [kind |-> "FreshFetch", offset |-> 0]
    ELSE IF ~local.exists THEN [kind |-> "FreshFetch", offset |-> 0]
    ELSE IF Len(local.data) < Val(rsize) THEN [kind |-> "Resume", offset |-> Len(local.data)]
    ELSE IF Len(local.data) = Val(rsize) THEN [kind |-> "Skip", offset |-> 0]
    ELSE [kind |-> "Restart", offset |-> 0]

\* What the decision variables of the script mean as a plan.
Follows(plan) ==
    CASE plan.kind = "Skip" -> ~proceed_with_download
      [] plan.kind = "Resume" ->
            /\ proceed_with_download /\ resume_download /\ file_open_mode = "ab"
            /\ local_file_size = plan.offset
      [] plan.kind \in {"FreshFetch", "Restart"} ->
            /\ proceed_with_download /\ ~resume_download /\ file_open_mode = "wb"
            /\ local_file_size = 0

\* C1: once the check phase of a file is over, the decision variables hold the
\* plan that the ordered decision table gives for the local file as it was
\* found, the probed remote size and skipExisting, and no other plan.
C1_PlanIsTablePlan ==
    Planned =>
        /\ Follows(TablePlan(before, remote_file_size, skipexisting))
        /\ \A k \in {"Skip", "Resume", "FreshFetch"} :
              Follows([kind |-> k, offset |-> local_file_size])
                 => \/ k = TablePlan(before, remote_file_size, skipexisting).kind
                    \/ /\ k = "FreshFetch"
                       /\ TablePlan(before, remote_file_size, skipexisting).kind = "Restart"

C1_Witness ==
    /\ Planned
    /\ TablePlan(before, remote_file_size, skipexisting) = [kind |-> "Resume", offset |-> 1]
    /\ resume_download


\* C2 (as claimed): when a request that carried a Range header is answered
\* with status 200 and the whole body, the destination is rewritten from byte
\* 0: what is on disk, followed by the rest of the body, is the body.
C2_FallsBackToRestart ==
    (pc = "stream" /\ ~IsNone(range_header) /\ status = 200)
        => disk[f_cur].data \o body = remote[f_cur]

\* C3: a file found with K bytes, K below the known remote size N, whose range
\* request the server honours (206): the request asked for bytes=K-, the
\* destination is opened for append, the bytes written are exactly the N-K
\* bytes after offset K, and when nothing fails the file ends with N bytes and
\* the outcome Downloaded; the K bytes being a partial copy (the first K bytes
\* of the remote file), the result is the content a full fetch writes.
C3_ResumeCompletesFile ==
    (Planned /\ resume_download /\ status = 206) =>
        LET f == f_cur
            K == Len(before.data)
            N == Len(remote[f])
        IN  /\ before.exists /\ K < N
            /\ range_header = Some(K)
            /\ opened \in {"ab", "no"}
            /\ pc = "stream" => /\ opened = "ab"
                                /\ disk[f].data \o body = before.data \o Drop(remote[f], K)
            /\ (pc = "loop" /\ ~faulted) =>
                  /\ outcome[f] = <<"Downloaded">>
                  /\ Len(disk[f].data) = N
                  /\ disk[f].data = before.data \o Drop(remote[f], K)
                  /\ IsPrefix(before.data, remote[f])
                        => disk[f].data = ResponseBody(f, None, FALSE)

C3_Witness ==
    /\ pc = "loop" /\ dlcounter >= 1
    /\ resume_download /\ status = 206 /\ ~faulted
    /\ Len(before.data) = 1 /\ Len(remote[f_cur]) = 2
    /\ range_header = Some(1)
    /\ disk[f_cur].data = remote[f_cur]
    /\ outcome[f_cur] = <<"Downloaded">>

\* C4: a file found larger than the known remote size (no --skip-existing) is
\* fetched again from scratch: no Range header, destination opened with 'wb',
\* and once the stream has been read to its end the file has the remote size
\* and the remote content.
C4_RestartReplacesFile ==
    (Planned /\ ~skipexisting /\ before.exists /\ ~IsNone(remote_file_size)
       /\ Len(before.data) > Val(remote_file_size)) =>
        LET f == f_cur
        IN  /\ proceed_with_download /\ ~resume_download /\ file_open_mode = "wb"
            /\ IsNone(range_header)
            /\ opened \in {"wb", "no"}
            /\ pc = "stream" => /\ opened = "wb"
                                /\ disk[f].data \o body = remote[f]
            /\ (pc = "loop" /\ reason \in {"downloaded", "unexpected"}) =>
                  /\ Len(disk[f].data) = Val(remote_file_size)
                  /\ disk[f].data = remote[f]

C4_Witness ==
    /\ pc = "loop" /\ dlcounter >= 1 /\ reason = "downloaded"
    /\ ~skipexisting /\ before.exists
    /\ remote_file_size = Some(1) /\ Len(before.data) = 2
    /\ gets[f_cur] = 1 /\ opened = "wb"
    /\ Len(disk[f_cur].data) = 1

\* C5: when the probe of a file yields no size (the HEAD request fails, or its
\* response has no content-length) the script goes on, and if the local file
\* is there the file is skipped: no GET, the local file as it was, one Skipped
\* outcome, and the loop is back at its head for the next file.
C5_UnknownSizeSkipsPresent ==
    (Planned /\ heads[f_cur] = 1 /\ IsNone(remote_file_size)) =>
        IF before.exists
        THEN /\ pc = "loop"
             /\ ~proceed_with_download
             /\ gets[f_cur] = 0
             /\ opened = "no"
             /\ disk[f_cur] = before
             /\ outcome[f_cur] = <<"Skipped">>
             /\ reason \in {"size-unknown", "head-error"}
        ELSE /\ proceed_with_download
             /\ reason \notin {"size-unknown", "head-error"}

C5_Witness ==
    /\ pc = "loop" /\ dlcounter = 1
    /\ heads[1] = 1 /\ IsNone(remote_file_size) /\ faulted
    /\ Len(before.data) >= 1 /\ before.exists
    /\ outcome[1] = <<"Skipped">>
    /\ reason = "head-error"

\* C6: a file found with exactly the known remote size (no --skip-existing) is
\* skipped: no GET, the destination is not opened, the outcome is Skipped.
C6_SameSizeSkips ==
    (Planned /\ ~skipexisting /\ before.exists
       /\ remote_file_size = Some(Len(before.data))) =>
        /\ pc = "loop"
        /\ gets[f_cur] = 0
        /\ opened = "no"
        /\ disk[f_cur] = before
        /\ outcome[f_cur] = <<"Skipped">>
        /\ reason = "same-size"

C6_Witness ==
    /\ pc = "loop" /\ dlcounter >= 1 /\ ~skipexisting
    /\ before.exists /\ Len(before.data) = 2
    /\ remote_file_size = Some(2)
    /\ outcome[f_cur] = <<"Skipped">>

\* C7: under --skip-existing a file that exists is skipped whatever its size
\* and whatever the remote size: it is not probed, no GET is issued and the
\* local file stays as it was.
C7_SkipExistingSkips ==
    (InIteration /\ skipexisting /\ before.exists) =>
        /\ pc = "loop"
        /\ heads[f_cur] = 0
        /\ gets[f_cur] = 0
        /\ opened = "no"
        /\ disk[f_cur] = before
        /\ outcome[f_cur] = <<"Skipped">>
        /\ reason = "skip-existing"

C7_Witness ==
    /\ pc = "loop" /\ dlcounter >= 1 /\ skipexisting
    /\ before.exists /\ Len(before.data) = 1 /\ Len(remote[f_cur]) = 2
    /\ outcome[f_cur] = <<"Skipped">>
    /\ disk[f_cur] = before


\* C8 (as claimed, for a server that reports sizes): in a second invocation
\* over an unchanged network and server, without --skip-existing, every file
\* is found with the remote size and skipped as already downloaded, and no GET
\* is issued for it.
C8_SecondRunSkipsAll ==
    (run = 2 /\ ~skipexisting /\ server.length = "ok" /\ Planned) =>
        /\ ~proceed_with_download
        /\ reason = "same-size"
        /\ gets[f_cur] = 0
        /\ Len(disk[f_cur].data) = Len(remote[f_cur])

\* The script has stopped and it was not SIGINT that stopped it.
Stopped == pc \in {"end", "crashed"}

\* C9 (as claimed): whatever happened to the files before it, the loop gets to
\* every file of the list: a download run that stops without being cancelled
\* has brought every file to an outcome.
C9_EveryFileIsReached ==
    (Stopped /\ ~list) => \A f \in Files : outcome[f] # <<>>

\* C10 (as claimed): a download run that stops without being cancelled has
\* logged, for every file of the list, exactly one outcome line, and it is
\* Downloaded, Skipped or Failed.
C10_ExactlyOneOutcome ==
    (Stopped /\ ~list) =>
        \A f \in Files : /\ Len(outcome[f]) = 1
                         /\ outcome[f][1] \in {"Downloaded", "Skipped", "Failed"}

\* What does hold of the outcomes: no file ever has two outcome lines, the
\* files before the current one have one each, and a run that reaches its end
\* has one for every file.
OutcomesInOrder ==
    /\ \A f \in Files : Len(outcome[f]) <= 1
    /\ (dlcounter >= 1 /\ pc \in {"loop", "head", "get", "stream", "report"}) =>
          /\ \A f \in 1..(dlcounter - 1) : Len(outcome[f]) = 1
          /\ \A f \in (dlcounter + 1)..NumFiles : outcome[f] = <<>>
          /\ pc \in {"loop", "report"} => Len(outcome[dlcounter]) = 1
    /\ (pc = "end" /\ ~list) => \A f \in Files : Len(outcome[f]) = 1

\* What the destination held right after open() in this iteration, and the
\* body of the response that is written behind it.
AtOpen == IF opened = "ab" /\ before.exists THEN before.data ELSE <<>>
Sent == ResponseBody(f_cur, range_header, status = 206)

\* C11: when the connection breaks while a body is streamed, the chunks
\* written so far stay in the file behind what it held when it was opened,
\* the attempt is logged as Failed, the file keeps that size until the script
\* gets to it again, and an invocation that then resumes it sends a Range
\* header with exactly that size as the offset.
C11_InterruptionKeepsBytes ==
    /\ (dlcounter >= 1 /\ pc = "loop" /\ reason = "network" /\ opened # "no") =>
          /\ outcome[f_cur] = <<"Failed">>
          /\ \E n \in 0..(Len(Sent) - 1) : disk[f_cur].data = AtOpen \o Take(Sent, n)
          /\ kept[f_cur] = Some(getsize(disk[f_cur]))
    /\ \A f \in Files :
          ~IsNone(kept[f]) => isfile(disk[f]) /\ getsize(disk[f]) = Val(kept[f])
    /\ (dlcounter >= 1 /\ ~IsNone(kept[f_cur])) =>
          /\ pc = "head" => local_file_size = Val(kept[f_cur])
          /\ (pc \in {"get", "stream"} /\ resume_download) =>
                local_file_size = Val(kept[f_cur])
          /\ (pc = "stream" /\ resume_download) => range_header = kept[f_cur]

C11_Witness ==
    /\ run = 2 /\ pc = "stream" /\ resume_download /\ opened = "ab"
    /\ kept[f_cur] = Some(1)
    /\ range_header = Some(1)

\* C12: SIGINT ends the whole batch wherever it arrives. The step that
\* delivers it writes no chunk, leaves every file as it is and issues no
\* request; from then on the script is gone with exit status 1, so nothing is
\* written, probed, fetched or logged afterwards.
C12_SigintEndsBatch ==
    /\ [](sigint => pc = "exited" /\ exit_code = Some(1))
    /\ [][(~sigint /\ sigint') => UNCHANGED <<disk, outcome, heads, gets>>]_vars
    /\ [][sigint => UNCHANGED <<disk, outcome, heads, gets, pc>>]_vars

\* SIGINT arrived when only the first chunk of a freshly fetched file had
\* been written, with a later file not yet probed.
C12_Witness ==
    /\ sigint /\ pc = "exited" /\ server.ranges = "unset"
    /\ \E f \in 1..(NumFiles - 1) :
          /\ gets[f] = 1 /\ outcome[f] = <<>>
          /\ Len(remote[f]) > CHUNKSIZE /\ getsize(disk[f]) = CHUNKSIZE
          /\ heads[f + 1] = 0 /\ gets[f + 1] = 0

\* C13: with -l the download loop is never entered: no file is inspected or
\* probed, no GET is issued, no outcome line is logged, no file is created or
\* changed, and the run goes from the start straight to the missing-ROMs
\* report and ends there.
C13_ListOnlyDoesNothing ==
    /\ [](list => /\ \A f \in Files : heads[f] = 0 /\ gets[f] = 0 /\ outcome[f] = <<>>
                  /\ dlcounter = 0 /\ opened = "no"
                  /\ pc \in {"main", "report", "end", "exited"})
    /\ [][list => disk' = disk]_vars
    /\ [][(list /\ pc' = "end") => pc = "report"]_vars

\* A list-only run has ended although one file is missing locally and has
\* remote content.
C13_Witness ==
    /\ list /\ pc = "end" /\ exit_code = Some(0)
    /\ \E f \in Files : ~isfile(disk[f]) /\ Len(remote[f]) > 0

\* C14: within the transfer of one file the values reported to the progress
\* bar never decrease and never exceed the total size the bar was created
\* with, for fresh, restarted and resumed transfers alike, also when the
\* server sends more bytes than that total.
C14_ProgressMonotone ==
    /\ \A i \in 1..(Len(reports) - 1) : reports[i] <= reports[i + 1]
    /\ reports # <<>> =>
          /\ ~IsNone(effective_remotesize_for_pbar)
          /\ \A i \in 1..Len(reports) : reports[i] <= Val(effective_remotesize_for_pbar)

\* A resumed transfer was answered with the whole file: more bytes were
\* counted than the total, and the reports stayed at the total.
C14_Witness ==
    /\ pc = "stream" /\ resume_download /\ status = 200 /\ pbar
    /\ current_progress_bytes > Val(effective_remotesize_for_pbar)
    /\ Len(reports) >= 3
    /\ reports[Len(reports)] = Val(effective_remotesize_for_pbar)

\* C15 (as claimed): a failure of the progress bar, at its creation, at an
\* update or at its completion, never fails the transfer: an attempt whose
\* stream was not ended by a network or file error has written every chunk
\* of the response and is logged as Downloaded.
C15_RenderingNeverFails ==
    (dlcounter >= 1 /\ pc = "loop" /\ opened # "no" /\ reason \notin {"network", "file"}) =>
        /\ disk[f_cur].data = AtOpen \o Sent
        /\ outcome[f_cur] = <<"Downloaded">>

\* C16: the check phase never deletes, truncates or writes a file. A file's
\* entry changes only for the file of the current iteration, and only in the
\* step that opens it in the planned mode after a GET was answered with
\* success or in a later step of that stream; until then, and for good when
\* the plan is to skip or when the GET fails (also with a restart planned),
\* the file is what it was when the iteration began.
C16_OnlyAcceptedGetWrites ==
    /\ [][\A f \in Files :
            disk'[f] # disk[f] =>
               /\ f = f_cur
               /\ \/ /\ pc = "get" /\ pc' = "stream"
                     /\ status' \in {200, 206}
                     /\ opened' = file_open_mode
                     /\ disk'[f] = Open(disk[f], file_open_mode)
                  \/ pc = "stream" /\ opened # "no"]_vars
    /\ []((InIteration /\ opened = "no") => disk[f_cur] = before)
    /\ []((InIteration /\ ~proceed_with_download) =>
             /\ opened = "no" /\ gets[f_cur] = 0 /\ pc = "loop")

\* A restart was planned (local file larger than the remote one), the GET
\* failed, and the larger local file is still there.
C16_Witness ==
    /\ dlcounter >= 1 /\ pc = "loop" /\ reason = "network" /\ opened = "no"
    /\ gets[f_cur] = 1
    /\ ~resume_download /\ file_open_mode = "wb"
    /\ ~IsNone(remote_file_size) /\ isfile(before)
    /\ getsize(before) > Val(remote_file_size)
    /\ disk[f_cur] = before

\* C17: nothing is retried. In one invocation a file gets at most one HEAD,
\* at most one GET and one outcome line; the loop only moves on to the next
\* file, and once a file has its outcome line, Failed included, the same
\* invocation sends no further request for it and does not touch it.
C17_NoRetry ==
    /\ [](\A f \in Files : heads[f] <= 1 /\ gets[f] <= 1 /\ Len(outcome[f]) <= 1)
    /\ [][run' = run => dlcounter' \in {dlcounter, dlcounter + 1, 0}]_vars
    /\ [][\A f \in Files :
            (run' = run /\ outcome[f] # <<>>) =>
                /\ heads'[f] = heads[f] /\ gets'[f] = gets[f]
                /\ outcome'[f] = outcome[f] /\ disk'[f] = disk[f]]_vars

\* A run has reached its end with a file before the last one Failed after
\* its one HEAD and its one GET.
C17_Witness ==
    /\ pc = "end"
    /\ \E f \in 1..(NumFiles - 1) :
          outcome[f] = <<"Failed">> /\ heads[f] = 1 /\ gets[f] = 1

\* A GET response has been accepted in this iteration.
Answered == InIteration /\ status # 0

\* Line 563: the total the progress display works with; a size that is not
\* known or is zero gives no total.
TotalFor(size) == IF ~IsNone(size) /\ Val(size) > 0 THEN size ELSE None

\* C18 (as claimed): the total size of the progress display is the total of
\* the response's content-range when there is one, otherwise the probed
\* size, otherwise unknown.
C18_TotalSizePrecedence ==
    Answered =>
        TotalFor(effective_remotesize_for_pbar) =
            TotalFor(IF ~IsNone(content_range) THEN content_range ELSE remote_file_size)

\* C18 (amended): the total size is the total of the response's
\* content-range when there is one, otherwise the probed size, otherwise the
\* content-length of the GET response when there is one, otherwise unknown;
\* a progress bar exists only for a known total above zero.
C18_TotalSizeWithFallback ==
    Answered =>
        /\ effective_remotesize_for_pbar =
              IF ~IsNone(content_range) THEN content_range
              ELSE IF ~IsNone(remote_file_size) THEN remote_file_size
              ELSE content_length
        /\ (pbar \/ reports # <<>>) =>
              ~IsNone(TotalFor(effective_remotesize_for_pbar))

\* The probe gave no size, the GET response carried a content-length, and
\* the progress bar runs with it as the total.
C18_Witness ==
    /\ pc = "stream" /\ IsNone(remote_file_size) /\ IsNone(content_range)
    /\ ~IsNone(content_length) /\ Val(content_length) > 0
    /\ effective_remotesize_for_pbar = content_length
    /\ pbar /\ reports = <<0>>

\* The state of file f in the per-file state machine, read off the script:
\* Pending until the loop gets to it, Checking while the HEAD is out, the
\* state of its plan once the download is announced (line 541), Streaming
\* once the destination is open, Done or Failed by its outcome line.
Plans == {"Resuming", "Restarting", "Fetching"}

PlanState == IF resume_download THEN "Resuming"
             ELSE IF isfile(before) THEN "Restarting" ELSE "Fetching"

State(f) ==
    IF outcome[f] # <<>>
    THEN IF outcome[f][1] = "Failed" THEN "Failed" ELSE "Done"
    ELSE IF dlcounter = f /\ pc = "head" THEN "Checking"
    ELSE IF dlcounter = f /\ pc = "get" THEN PlanState
    ELSE IF dlcounter = f /\ pc = "stream" THEN "Streaming"
    ELSE "Pending"

\* The transitions of the state machine as claimed; Done is entered from
\* Checking by a skip and from Streaming by a completed download.
ClaimedStep(f, a, b) ==
    \/ a = "Pending" /\ b = "Checking"
    \/ a = "Checking" /\ b = "Done" /\ outcome'[f] = <<"Skipped">>
    \/ a = "Checking" /\ b \in Plans
    \/ a \in Plans /\ b = "Streaming"
    \/ a = "Streaming" /\ b = "Done" /\ outcome'[f] = <<"Downloaded">>
    \/ a = "Streaming" /\ b = "Failed"

\* C19 (as claimed): while the script runs, each file moves only along
\* Pending -> Checking -> (Skip -> Done) or (Resuming | Restarting | Fetching
\* -> Streaming -> Done | Failed); every file that is past Checking has had
\* its size probed; a run that reaches its end leaves every file Done or
\* Failed.
C19_StateMachine ==
    /\ [][Running' =>
            \A f \in Files : \/ State(f)' = State(f)
                             \/ ClaimedStep(f, State(f), State(f)')]_vars
    /\ [](\A f \in Files : State(f) \notin {"Pending", "Checking"} => heads[f] = 1)
    /\ []((pc = "end" /\ ~list) => \A f \in Files : State(f) \in {"Done", "Failed"})

\* C19 (amended): as claimed, except that under --skip-existing an existing
\* file goes from Pending to Skip -> Done on the local inspection alone,
\* without a size probe, and that Failed is also reached from Resuming,
\* Restarting or Fetching, when the GET request fails or the destination
\* cannot be opened.
C19_StateMachineOfCode ==
    /\ [][Running' =>
            \A f \in Files :
               \/ State(f)' = State(f)
               \/ ClaimedStep(f, State(f), State(f)')
               \/ /\ State(f) = "Pending" /\ State(f)' = "Done"
                  /\ skipexisting /\ isfile(disk[f])
                  /\ outcome'[f] = <<"Skipped">>
               \/ /\ State(f) \in Plans /\ State(f)' = "Failed"
                  /\ opened' = "no"]_vars
    /\ [](\A f \in Files :
            State(f) \notin {"Pending", "Checking"} =>
               \/ heads[f] = 1
               \/ heads[f] = 0 /\ skipexisting /\ isfile(disk[f]) /\ State(f) = "Done")
    /\ []((pc = "end" /\ ~list) => \A f \in Files : State(f) \in {"Done", "Failed"})

\* A run has ended with one file Failed although it was never opened (its
\* GET failed) and another one skipped without a probe.
C19_Witness ==
    /\ pc = "end"
    /\ \E f, g \in Files :
          /\ State(f) = "Failed" /\ gets[f] = 1 /\ ~isfile(disk[f])
          /\ State(g) = "Done" /\ heads[g] = 0

\* Bytes and chunks written to the destination since it was opened in this
\* iteration.
Written == getsize(disk[f_cur]) - Len(AtOpen)
ChunksWritten == (Written + CHUNKSIZE - 1) \div CHUNKSIZE

\* The destination is open or was opened in this iteration, and no network,
\* file or rendering fault has hit the iteration.
Transferring == InIteration /\ opened # "no" /\ ~faulted

Means(plan, proceed, resume, mode, lsize) ==
    CASE plan.kind = "Skip" -> ~proceed
      [] plan.kind = "Resume" ->
            proceed /\ resume /\ mode = "ab" /\ lsize = plan.offset
      [] plan.kind \in {"FreshFetch", "Restart"} ->
            proceed /\ ~resume /\ mode = "wb"

\* C22 (as claimed): also when another process changes the destination while
\* the probe is in flight, the plan that comes out of the check phase is the
\* plan of the decision table for one observation of the local file, the one
\* made before the probe or the one made after it, and a transfer that opens
\* the destination for append has asked for the bytes from exactly the size
\* the destination has.
C22_PlanFromOneObservation ==
    /\ [][(pc = "head" /\ pc' \in {"get", "loop"}) =>
            \E obs \in {before, disk[f_cur]} :
               Means(TablePlan(obs, remote_file_size', skipexisting),
                     proceed_with_download', resume_download', file_open_mode',
                     local_file_size')]_vars
    /\ [][(pc = "get" /\ pc' = "stream" /\ opened' = "ab") =>
            range_header' = Some(getsize(disk[f_cur]))]_vars

\* C23 (as claimed): when a file is logged as Downloaded and the probe gave
\* its remote size N, the local file has exactly N bytes at that moment.
C23_DownloadedHasRemoteSize ==
    (dlcounter >= 1 /\ pc = "loop" /\ outcome[f_cur] = <<"Downloaded">>
       /\ ~IsNone(remote_file_size)) =>
        getsize(disk[f_cur]) = Val(remote_file_size)

\* C24: in every attempt that sends a GET, the request carries a Range header
\* exactly when the file was there, the remote size is known and the local
\* size is below it (an empty file included, with offset 0), the offset is
\* the local size, and the destination is opened with 'ab' exactly in that
\* case and with 'wb', without a Range header, in every other.
C24_ModeAgreesWithRange ==
    (InIteration /\ gets[f_cur] = 1) =>
        LET resumable == /\ isfile(before)
                         /\ ~IsNone(remote_file_size)
                         /\ getsize(before) < Val(remote_file_size)
        IN  /\ ~IsNone(range_header) <=> resumable
            /\ resumable => range_header = Some(getsize(before))
            /\ file_open_mode = (IF resumable THEN "ab" ELSE "wb")
            /\ opened \in {"no", file_open_mode}
            /\ pc = "stream" => opened = file_open_mode
            /\ opened # "no" => (opened = "ab" <=> ~IsNone(range_header))

\* An existing empty file is resumed: Range from offset 0, opened for append.
C24_Witness ==
    /\ pc = "stream" /\ before = Present(<<>>)
    /\ range_header = Some(0) /\ opened = "ab"
    /\ Val(remote_file_size) >= 1

\* The first occurrences of the names of s, in the order of s.
RECURSIVE Distinct(_)
Distinct(s) ==
    IF s = <<>> THEN <<>>
    ELSE LET front == Distinct(SubSeq(s, 1, Len(s) - 1))
             last == s[Len(s)]
         IN  IF last \in Range(front) THEN front ELSE Append(front, last)

\* C25: once the comparison is over, the wanted names are the distinct names
\* of the DAT in DAT order; the found list holds, in that order, exactly the
\* wanted names that the server has and the missing list exactly those it has
\* not, so every wanted name is in exactly one of the two, once, the counts
\* add up (found + missing = wanted), and no name handed to the download loop
\* is reported missing.  While the lists are built they never share a name.
C25_MatchingPartitions ==
    /\ Range(wantedfiles) \cap Range(missingroms) = {}
    /\ pc \in {"main", "report", "end"} =>
          /\ wantedroms = Distinct(dat)
          /\ wantedfiles = SelectSeq(wantedroms, IsAvailable)
          /\ missingroms = SelectSeq(wantedroms, IsMissing)
          /\ Len(wantedfiles) + Len(missingroms) = Len(wantedroms)
          /\ Len(wantedroms) = Cardinality(Range(dat))
          /\ \A name \in Range(dat) :
                Cardinality({i \in 1..Len(wantedfiles) : wantedfiles[i] = name})
                + Cardinality({i \in 1..Len(missingroms) : missingroms[i] = name}) = 1

\* A DAT that names one game twice has been compared: one name was found, one
\* is missing, and the listing run has ended.
C25_Witness ==
    /\ pc = "end" /\ list
    /\ Len(dat) = 3 /\ Len(wantedroms) = 2
    /\ Len(wantedfiles) = 1 /\ Len(missingroms) = 1

====
